---- MODULE Spec2Model ----
(***************************************************************************)
(* Model of the slide renderer of Presentation-Architect                   *)
(* (components/SlideRenderer.tsx): the SmartText math segmenter, the       *)
(* getDynamicFontSize estimator and the renderLayout dispatch.             *)
(*                                                                         *)
(* Strings are sequences of one-character strings.  JavaScript numbers are *)
(* IEEE-754 doubles; the doubles the estimator handles are all multiples   *)
(* of 2^-66 below 2^11, so a double is modelled exactly as the natural     *)
(* number value * 2^66, written little-endian in limbs of 11 bits, and     *)
(* every arithmetic operation rounds its exact result to 53 significant    *)
(* bits, ties to even, as the hardware does.                               *)
(***************************************************************************)
EXTENDS Integers, Sequences, FiniteSets, TLC

(***************************************************************************)
(* Natural numbers of arbitrary size (little-endian limbs).                *)
(***************************************************************************)
LimbBits == 11
LimbBase == 2 ^ LimbBits
FracLimbs == 6

RECURSIVE Pow2(_)
Pow2(k) == IF k = 0 THEN 1 ELSE 2 * Pow2(k - 1)

Front(s) == SubSeq(s, 1, Len(s) - 1)
Last(s) == s[Len(s)]

RECURSIVE BNorm(_)
BNorm(x) == IF x = <<>> THEN <<>>
            ELSE IF Last(x) = 0 THEN BNorm(Front(x)) ELSE x

RECURSIVE IntToBig(_)
IntToBig(n) == IF n = 0 THEN <<>>
               ELSE <<n % LimbBase>> \o IntToBig(n \div LimbBase)

RECURSIVE BigToInt(_)
BigToInt(x) == IF x = <<>> THEN 0 ELSE Head(x) + LimbBase * BigToInt(Tail(x))

RECURSIVE BAddC(_, _, _)
BAddC(x, y, c) ==
    IF x = <<>> /\ y = <<>> THEN (IF c = 0 THEN <<>> ELSE <<c>>)
    ELSE LET a == IF x = <<>> THEN 0 ELSE Head(x)
             b == IF y = <<>> THEN 0 ELSE Head(y)
             s == a + b + c
         IN  <<s % LimbBase>> \o BAddC(IF x = <<>> THEN <<>> ELSE Tail(x),
                                       IF y = <<>> THEN <<>> ELSE Tail(y),
                                       s \div LimbBase)
BAdd(x, y) == BNorm(BAddC(x, y, 0))

\* x - y for x >= y
RECURSIVE BSubC(_, _, _)
BSubC(x, y, c) ==
    IF x = <<>> THEN <<>>
    ELSE LET b == IF y = <<>> THEN 0 ELSE Head(y)
             d == Head(x) - b - c
         IN  <<d % LimbBase>> \o BSubC(Tail(x),
                                       IF y = <<>> THEN <<>> ELSE Tail(y),
                                       IF d < 0 THEN 1 ELSE 0)
BSub(x, y) == BNorm(BSubC(x, y, 0))

RECURSIVE BMulSmallC(_, _, _)
BMulSmallC(x, d, c) ==
    IF x = <<>> THEN IntToBig(c)
    ELSE LET p == Head(x) * d + c
         IN  <<p % LimbBase>> \o BMulSmallC(Tail(x), d, p \div LimbBase)
BMulSmall(x, d) == BNorm(BMulSmallC(x, d, 0))

RECURSIVE BMul(_, _)
BMul(x, y) == IF y = <<>> \/ x = <<>> THEN <<>>
              ELSE BAdd(BMulSmall(x, Head(y)),
                        LET r == BMul(x, Tail(y))
                        IN  IF r = <<>> THEN <<>> ELSE <<0>> \o r)

\* quotient and remainder of x by a small d (0 < d < 2^19)
RECURSIVE BDivSmallR(_, _, _)
BDivSmallR(x, d, r) ==
    IF x = <<>> THEN [q |-> <<>>, r |-> r]
    ELSE LET cur == r * LimbBase + Last(x)
             low == BDivSmallR(Front(x), d, cur % d)
         IN  [q |-> Append(low.q, cur \div d), r |-> low.r]
BDivSmall(x, d) == LET qr == BDivSmallR(x, d, 0)
                   IN  [q |-> BNorm(qr.q), r |-> qr.r]

\* -1, 0, 1 as x < y, x = y, x > y (both normalised)
RECURSIVE BCmp(_, _)
BCmp(x, y) ==
    IF Len(x) # Len(y) THEN (IF Len(x) < Len(y) THEN -1 ELSE 1)
    ELSE IF x = <<>> THEN 0
    ELSE IF Last(x) # Last(y) THEN (IF Last(x) < Last(y) THEN -1 ELSE 1)
    ELSE BCmp(Front(x), Front(y))

RECURSIVE IntBitLen(_)
IntBitLen(n) == IF n = 0 THEN 0 ELSE 1 + IntBitLen(n \div 2)

BitLen(x) == IF x = <<>> THEN 0
             ELSE LimbBits * (Len(x) - 1) + IntBitLen(Last(x))

Zeros(n) == [i \in 1..n |-> 0]

ShiftLeft(x, s) ==
    IF x = <<>> THEN <<>>
    ELSE Zeros(s \div LimbBits) \o BMulSmall(x, Pow2(s % LimbBits))

ShiftRight(x, s) ==
    IF s \div LimbBits >= Len(x) THEN <<>>
    ELSE BDivSmall(SubSeq(x, (s \div LimbBits) + 1, Len(x)),
                   Pow2(s % LimbBits)).q

(***************************************************************************)
(* IEEE-754 double arithmetic, round to nearest, ties to even.             *)
(***************************************************************************)
\* the exact natural n (with "sticky": some lower-order part was cut off)
\* rounded to 53 significant bits
IsOdd(q) == q # <<>> /\ Head(q) % 2 = 1

\* q or q + 1: cmp compares the bits cut off with half a unit of q
Nearest(q, cmp, sticky) ==
    IF cmp = 1 \/ (cmp = 0 /\ (sticky \/ IsOdd(q))) THEN BAdd(q, <<1>>) ELSE q

\* n rounded at bit s, q being n without its s low bits
RoundTo(n, s, q, sticky) ==
    ShiftLeft(Nearest(q, BCmp(BSub(n, ShiftLeft(q, s)),
                              ShiftLeft(<<1>>, s - 1)), sticky), s)

RoundAt(n, s, sticky) ==
    IF s <= 0 THEN n ELSE RoundTo(n, s, ShiftRight(n, s), sticky)

Round53(n, sticky) == RoundAt(n, BitLen(n) - 53, sticky)

FromInt(n) == IF n = 0 THEN <<>> ELSE Zeros(FracLimbs) \o IntToBig(n)

RoundQuotient(qr) == Round53(qr.q, qr.r # 0)

\* a / b for integers a >= 0, b > 0
FDivInt(a, b) == RoundQuotient(BDivSmall(FromInt(a), b))

\* p, which carries twice the fraction limbs, with the fraction of one factor
DropFraction(p) ==
    IF Len(p) <= FracLimbs THEN <<>> ELSE SubSeq(p, FracLimbs + 1, Len(p))

\* x * y
FMul(x, y) == DropFraction(Round53(BMul(x, y), FALSE))

\* x - y for x >= y
FSub(x, y) == Round53(BSub(x, y), FALSE)

FLess(x, y) == BCmp(x, y) = -1
FMax(x, y) == IF FLess(x, y) THEN y ELSE x

\* Math.floor, as an integer
Floor(x) == IF Len(x) <= FracLimbs THEN 0
            ELSE BigToInt(SubSeq(x, FracLimbs + 1, Len(x)))

IsInteger(x) == x = FromInt(Floor(x))

(***************************************************************************)
(* SlideRenderer.getDynamicFontSize                                        *)
(***************************************************************************)
easyThreshold == 300
hardLimit == 1200
lineWeight == 40

\* the literals 0.4 and 0.6: the doubles nearest to 4/10 and 6/10
Lit04 == FDivInt(4, 10)
Lit06 == FDivInt(6, 10)
One == FromInt(1)

RECURSIVE Join(_)
Join(content) == IF content = <<>> THEN <<>>
                 ELSE Head(content) \o Join(Tail(content))

\* mutant: the line weight applied to the characters as well
ComplexityAllWeighted(content) ==
    (Len(Join(content)) + Len(content)) * lineWeight

Complexity(content) == Len(Join(content)) + Len(content) * lineWeight

\* 1 - t: its sign, and its value when it is not negative
OneMinus(t) ==
    IF FLess(One, t) THEN [neg |-> TRUE, val |-> <<>>]
    ELSE [neg |-> FALSE, val |-> FSub(One, t)]

\* mutant: the easy threshold is not subtracted from the complexity
LinearScaleFromZero(complexity) ==
    OneMinus(FMul(FDivInt(complexity, hardLimit - easyThreshold), Lit06))

\* 1 - ((complexity - easyThreshold) / (hardLimit - easyThreshold)) * 0.6
LinearScale(complexity) ==
    OneMinus(FMul(FDivInt(complexity - easyThreshold,
                          hardLimit - easyThreshold), Lit06))

\* Math.max(flr, lin) for a lin that may be negative
MaxOf(flr, lin) == IF lin.neg THEN flr ELSE FMax(flr, lin.val)

\* mutant: the scale is not held above minSize / baseSize
ScaleNoFloor(complexity, baseSize, minSize) ==
    MaxOf(<<>>, LinearScale(complexity))

\* Math.max(minSize / baseSize, 1 - ...)
Scale(complexity, baseSize, minSize) ==
    MaxOf(FDivInt(minSize, baseSize), LinearScale(complexity))

\* mutant: the thumbnail size is floored as the full size is
getDynamicFontSizeFloored(content, baseSize, minSize, thumb) ==
    IF thumb THEN FromInt(Floor(FMul(FromInt(baseSize), Lit04)))
    ELSE IF Complexity(content) <= easyThreshold THEN FromInt(baseSize)
    ELSE FromInt(Floor(FMul(FromInt(baseSize),
                            Scale(Complexity(content), baseSize, minSize))))

\* the number in front of "px" in the returned string
getDynamicFontSize(content, baseSize, minSize, thumb) ==
    IF thumb THEN FMul(FromInt(baseSize), Lit04)
    ELSE IF Complexity(content) <= easyThreshold THEN FromInt(baseSize)
    ELSE FromInt(Floor(FMul(FromInt(baseSize),
                            Scale(Complexity(content), baseSize, minSize))))

(***************************************************************************)
(* SmartText: the text / math segmenter                                    *)
(***************************************************************************)
Dollar == "$"
\* the characters "." does not match
LineTerminators == {"\n"}

startsWith(s, pre) == Len(s) >= Len(pre) /\ SubSeq(s, 1, Len(pre)) = pre
endsWith(s, suf) ==
    Len(s) >= Len(suf) /\ SubSeq(s, Len(s) - Len(suf) + 1, Len(s)) = suf

\* mutant: the slice runs to the end of the string
sliceToEnd(s, a, b) == SubSeq(s, a + 1, Len(s))

\* s.slice(a, -b)
slice(s, a, b) == SubSeq(s, a + 1, Len(s) - b)

\* \$\$.*?\$\$ with ".*?" starting at e: index of the last character of the
\* shortest match, 0 when there is none
RECURSIVE LazyBlockEnd(_, _)
LazyBlockEnd(text, e) ==
    IF e + 1 > Len(text) THEN 0
    ELSE IF text[e] = Dollar /\ text[e + 1] = Dollar THEN e + 1
    ELSE IF text[e] \in LineTerminators THEN 0
    ELSE LazyBlockEnd(text, e + 1)

\* \$.*?\$ with ".*?" starting at e
RECURSIVE LazyInlineEnd(_, _)
LazyInlineEnd(text, e) ==
    IF e > Len(text) THEN 0
    ELSE IF text[e] = Dollar THEN e
    ELSE IF text[e] \in LineTerminators THEN 0
    ELSE LazyInlineEnd(text, e + 1)

\* /(\$\$.*?\$\$|\$.*?\$)/ tried at position q: the first alternative that
\* matches wins; index of the last matched character, 0 when none matches
MatchEnd(text, q) ==
    LET blk == IF q + 1 <= Len(text) /\ text[q] = Dollar /\ text[q + 1] = Dollar
               THEN LazyBlockEnd(text, q + 2) ELSE 0
    IN  IF blk # 0 THEN blk
        ELSE IF text[q] = Dollar THEN LazyInlineEnd(text, q + 1)
        ELSE 0

\* the leftmost position from p on where the regex matches, Len(text) + 1
\* when it matches nowhere
NextMatch(text, p) ==
    LET at == {q \in p..Len(text) : MatchEnd(text, q) # 0}
    IN  IF at = {} THEN Len(text) + 1
        ELSE CHOOSE q \in at : \A r \in at : q <= r

\* text.split(regex) with one capture group: the piece before each match,
\* the match, and at the end the piece after the last match; p is where the
\* pending piece starts
RECURSIVE SplitFrom(_, _)
SplitFrom(text, p) ==
    LET q == NextMatch(text, p)
    IN  IF q > Len(text) THEN <<SubSeq(text, p, Len(text))>>
        ELSE <<SubSeq(text, p, q - 1), SubSeq(text, q, MatchEnd(text, q))>>
             \o SplitFrom(text, MatchEnd(text, q) + 1)

split(text) == SplitFrom(text, 1)

BlockMath(math) == [type |-> "block", text |-> math]
InlineMath(math) == [type |-> "inline", text |-> math]
Plain(part) == [type |-> "plain", text |-> part]

\* the element parts.map produces for one part
RenderPart(part) ==
    IF startsWith(part, <<Dollar, Dollar>>) /\ endsWith(part, <<Dollar, Dollar>>)
    THEN BlockMath(slice(part, 2, 2))
    ELSE IF startsWith(part, <<Dollar>>) /\ endsWith(part, <<Dollar>>)
    THEN InlineMath(slice(part, 1, 1))
    ELSE Plain(part)

\* mutant: the empty text is not returned early
SmartTextNoEmptyCheck(text) ==
    IF startsWith(text, <<Dollar, Dollar>>) /\ endsWith(text, <<Dollar, Dollar>>)
    THEN <<BlockMath(slice(text, 2, 2))>>
    ELSE LET parts == split(text)
         IN  [i \in 1..Len(parts) |-> RenderPart(parts[i])]

\* the sequence of elements SmartText renders for text
SmartText(text) ==
    IF text = <<>> THEN <<>>
    ELSE IF startsWith(text, <<Dollar, Dollar>>) /\ endsWith(text, <<Dollar, Dollar>>)
    THEN <<BlockMath(slice(text, 2, 2))>>
    ELSE LET parts == split(text)
         IN  [i \in 1..Len(parts) |-> RenderPart(parts[i])]

(***************************************************************************)
(* SlideRenderer.renderLayout                                              *)
(***************************************************************************)
\* an absent optional field (subtitle, imageUrl) or an out-of-range index;
\* no text is this value, texts being sequences of single characters
Undefined == <<"undefined">>

\* !text
Falsy(text) == text = Undefined \/ text = <<>>

\* mutant: no guard on the text; a method call on undefined throws
SmartTextOfUnguarded(text) ==
    IF text = Undefined THEN <<[type |-> "TypeError", text |-> <<>>]>>
    ELSE SmartText(text)

\* <SmartText text={...} /> for a field that may be absent
SmartTextOf(text) == IF Falsy(text) THEN <<>> ELSE SmartText(text)

\* a text block whose style.fontSize comes from getDynamicFontSize, with the
\* arguments of the call
Sized(content, baseSize, minSize, thumb) ==
    [baseSize |-> baseSize, minSize |-> minSize,
     fontSize |-> getDynamicFontSize(content, baseSize, minSize, thumb)]

Bullets(content) == [i \in 1..Len(content) |-> SmartText(content[i])]

\* mutant: the two sizes change places
ModeSwapped(thumb, small, full) == IF thumb THEN full ELSE small

\* isThumbnail ? small : full
Mode(thumb, small, full) == IF thumb THEN small ELSE full

\* mutant: Math.floor(n / 2)
FloorHalf(n) == n \div 2

\* Math.ceil(n / 2)
CeilHalf(n) == (n + 1) \div 2

TitleLayout(slide, thumb) ==
    [template |-> "title",
     title    |-> Sized(<<slide.title>>, Mode(thumb, 24, 64),
                        Mode(thumb, 12, 32), thumb),
     titleText |-> SmartTextOf(slide.title),
     hasSubtitle |-> ~Falsy(slide.subtitle),
     subtitle |-> IF Falsy(slide.subtitle) THEN Undefined
                  ELSE Sized(<<slide.subtitle>>, Mode(thumb, 12, 28),
                             Mode(thumb, 8, 16), thumb),
     subtitleText |-> SmartTextOf(slide.subtitle)]

QuoteLayout(slide, thumb) ==
    [template |-> "quote",
     quoteMark |-> ~thumb,
     body     |-> Sized(slide.content, Mode(thumb, 14, 40),
                        Mode(thumb, 10, 20), thumb),
     bodyText |-> SmartTextOf(IF slide.content = <<>> THEN Undefined
                              ELSE slide.content[1]),
     attributionSize |-> FromInt(Mode(thumb, 10, 20)),
     titleText |-> SmartTextOf(slide.title)]

\* mutant: the body is sized as a thumbnail until the image has loaded
ImageLayoutLoadedSized(slide, thumb, loaded) ==
    [template |-> "image",
     isLeft   |-> slide.layout = "image-left",
     image    |-> IF Falsy(slide.imageUrl) THEN "Visual Aid Pending..."
                  ELSE IF loaded THEN "img opacity-100"
                  ELSE "Loading... img opacity-0",
     titleClass |-> IF thumb THEN "text-sm" ELSE "text-3xl",
     titleText |-> SmartTextOf(slide.title),
     body     |-> Sized(slide.content, Mode(thumb \/ ~loaded, 10, 20),
                        Mode(thumb \/ ~loaded, 8, 12), thumb),
     items    |-> Bullets(slide.content)]

ImageLayout(slide, thumb, loaded) ==
    [template |-> "image",
     isLeft   |-> slide.layout = "image-left",
     image    |-> IF Falsy(slide.imageUrl) THEN "Visual Aid Pending..."
                  ELSE IF loaded THEN "img opacity-100"
                  ELSE "Loading... img opacity-0",
     titleClass |-> IF thumb THEN "text-sm" ELSE "text-3xl",
     titleText |-> SmartTextOf(slide.title),
     body     |-> Sized(slide.content, Mode(thumb, 10, 20),
                        Mode(thumb, 8, 12), thumb),
     items    |-> Bullets(slide.content)]

\* mutant: the size of both columns comes from the left half
SplitLayoutLeftSized(slide, thumb) ==
    LET leftContent  == SubSeq(slide.content, 1, CeilHalf(Len(slide.content)))
        rightContent == SubSeq(slide.content, CeilHalf(Len(slide.content)) + 1,
                               Len(slide.content))
    IN  [template |-> "split",
         titleClass |-> IF thumb THEN "text-sm" ELSE "text-3xl",
         titleText |-> SmartTextOf(slide.title),
         left     |-> Sized(leftContent, Mode(thumb, 9, 18),
                            Mode(thumb, 7, 12), thumb),
         leftItems |-> Bullets(leftContent),
         right    |-> Sized(leftContent, Mode(thumb, 9, 18),
                            Mode(thumb, 7, 12), thumb),
         rightItems |-> Bullets(rightContent)]

SplitLayout(slide, thumb) ==
    LET leftContent  == SubSeq(slide.content, 1, CeilHalf(Len(slide.content)))
        rightContent == SubSeq(slide.content, CeilHalf(Len(slide.content)) + 1,
                               Len(slide.content))
        splitFontSize == Sized(slide.content, Mode(thumb, 9, 18),
                               Mode(thumb, 7, 12), thumb)
    IN  [template |-> "split",
         titleClass |-> IF thumb THEN "text-sm" ELSE "text-3xl",
         titleText |-> SmartTextOf(slide.title),
         left     |-> splitFontSize,
         leftItems |-> Bullets(leftContent),
         right    |-> splitFontSize,
         rightItems |-> Bullets(rightContent)]

ContentLayout(slide, thumb) ==
    [template |-> "content",
     titleSize |-> FromInt(Mode(thumb, 16, 44)),
     titleText |-> SmartTextOf(slide.title),
     body     |-> Sized(slide.content, Mode(thumb, 11, 26),
                        Mode(thumb, 9, 14), thumb),
     items    |-> Bullets(slide.content)]

\* mutant: an unknown tag falls through to the title layout
renderLayoutDefaultTitle(slide, thumb, loaded) ==
    CASE slide.layout = "content" -> ContentLayout(slide, thumb)
      [] slide.layout = "quote" -> QuoteLayout(slide, thumb)
      [] slide.layout \in {"image-left", "image-right"} ->
             ImageLayout(slide, thumb, loaded)
      [] slide.layout = "split" -> SplitLayout(slide, thumb)
      [] OTHER -> TitleLayout(slide, thumb)

renderLayout(slide, thumb, loaded) ==
    CASE slide.layout = "title" -> TitleLayout(slide, thumb)
      [] slide.layout = "quote" -> QuoteLayout(slide, thumb)
      [] slide.layout \in {"image-left", "image-right"} ->
             ImageLayout(slide, thumb, loaded)
      [] slide.layout = "split" -> SplitLayout(slide, thumb)
      [] OTHER -> ContentLayout(slide, thumb)

(***************************************************************************)
(* App: the slide editor (edit state, handleSaveSlideContent)              *)
(***************************************************************************)
\* the characters String.prototype.trim removes that a text field can hold
WhiteSpace == {" ", "\t", "\n", "\r"}

RECURSIVE trimStart(_)
trimStart(s) == IF s # <<>> /\ Head(s) \in WhiteSpace THEN trimStart(Tail(s))
                ELSE s

RECURSIVE trimEnd(_)
trimEnd(s) == IF s # <<>> /\ s[Len(s)] \in WhiteSpace
              THEN trimEnd(SubSeq(s, 1, Len(s) - 1))
              ELSE s

trim(s) == trimEnd(trimStart(s))

\* the position of the first sep in t, 0 when there is none
IndexOf(t, sep) ==
    IF \E i \in 1..Len(t) : t[i] = sep
    THEN CHOOSE i \in 1..Len(t) :
             t[i] = sep /\ \A j \in 1..(i - 1) : t[j] # sep
    ELSE 0

\* t.split(sep) for a one-character sep: at least one piece
RECURSIVE splitOn(_, _)
splitOn(t, sep) ==
    IF IndexOf(t, sep) = 0 THEN <<t>>
    ELSE <<SubSeq(t, 1, IndexOf(t, sep) - 1)>>
         \o splitOn(SubSeq(t, IndexOf(t, sep) + 1, Len(t)), sep)

\* content.join(sep)
RECURSIVE joinWith(_, _)
joinWith(c, sep) ==
    IF c = <<>> THEN <<>>
    ELSE IF Len(c) = 1 THEN c[1]
    ELSE c[1] \o <<sep>> \o joinWith(Tail(c), sep)

\* mutant: only the empty lines are removed
filterNonEmpty(lines) == SelectSeq(lines, LAMBDA line : line # <<>>)

\* .filter(line => line.trim() !== '')
filterNonBlank(lines) == SelectSeq(lines, LAMBDA line : trim(line) # <<>>)

\* x || undefined and x || ''
OrUndefined(x) == IF Falsy(x) THEN Undefined ELSE x
OrEmpty(x) == IF Falsy(x) THEN <<>> ELSE x

(***************************************************************************)
(* Bounds and input domains                                                *)
(***************************************************************************)
MaxTextLen == 6      \* longest enumerated SmartText input
MaxChars == 1500     \* most characters typed into the first line
MaxLines == 2        \* most lines of an estimator call
MaxBullets == 5      \* most bullets of a rendered slide
LongLen == 130       \* characters of the long bullet
MaxEditLen == 4      \* longest text typed into the bullet editor

Alphabet == {Dollar, "a", " ", "\n"}

RECURSIVE StringsUpTo(_)
StringsUpTo(n) ==
    IF n = 0 THEN {<<>>}
    ELSE LET S == StringsUpTo(n - 1)
         IN  S \cup {Append(t, c) : t \in S, c \in Alphabet}

\* "a $x$ b $$y$$ c" and "$$x^2$$"
MixedExample == <<"a", " ", "$", "x", "$", " ", "b", " ",
                  "$", "$", "y", "$", "$", " ", "c">>
BlockExample == <<"$", "$", "x", "^", "2", "$", "$">>

Texts == StringsUpTo(MaxTextLen) \cup {MixedExample, BlockExample}

\* the (baseSize, minSize) pairs renderLayout passes in full and in
\* thumbnail mode
FullPairs == {<<64, 32>>, <<28, 16>>, <<40, 20>>, <<20, 12>>, <<18, 12>>,
              <<26, 14>>}
ThumbPairs == {<<24, 12>>, <<12, 8>>, <<14, 10>>, <<10, 8>>, <<9, 7>>,
               <<11, 9>>}
\* a pair whose minimum is below 0.4 of the base, and the thumbnail call
\* estimateSize(_, 64, 32, true)
ProbePairs == {<<64, 16>>}
SizeCalls == {<<p[1], p[2], FALSE>> : p \in FullPairs \cup ProbePairs}
             \cup {<<p[1], p[2], TRUE>> : p \in ThumbPairs \cup {<<64, 32>>}}

\* a short bullet, "$x$", and a long one
LongBullet == [i \in 1..LongLen |-> "a"]
BulletPool == {<<"$", "x", "$">>, LongBullet}
Titles == {<<>>, <<"T">>}
Subtitles == {Undefined, <<"s">>}
ImageUrls == {Undefined, <<"u">>}
LayoutTags == {"title", "content", "split", "quote", "image-left",
               "image-right"}
ImageTags == {"image-left", "image-right"}
UnknownTag == "bogus-tag"

\* the slides first rendered: no bullets yet; a subtitle only where the
\* layout shows one, an image only where the layout shows one
InitSlides ==
    {sl \in [title : Titles, subtitle : Subtitles, content : {<<>>},
             layout : LayoutTags \cup {UnknownTag}, imageUrl : ImageUrls] :
        /\ sl.layout # "title" => sl.subtitle = Undefined
        /\ sl.layout \notin ImageTags => sl.imageUrl = Undefined}

(***************************************************************************)
(* State                                                                   *)
(***************************************************************************)
VARIABLES
    pc,           \* "props": mounted, not rendered yet; "rendered"
    text,         \* SmartText: the text prop
    segments,     \* SmartText: the elements rendered
    content,      \* getDynamicFontSize: the arguments ...
    baseSize,
    minSize,
    fontSize,     \* ... and the number returned
    slide,        \* SlideRenderer: the slide prop
    isThumbnail,  \* SlideRenderer: the isThumbnail prop
    imgLoaded,    \* SlideRenderer: useState(false)
    view,         \* SlideRenderer: what renderLayout returned
    editTitle,        \* App: the local editing state
    editSubtitle,
    editContentText,
    isModified,
    presentation,           \* App: useState<Presentation | null>(null)
    currentSlideIndex,      \* App: useState(0)
    isLoading,              \* App: the busy flags
    isExporting,
    isEditingImage,
    isRegeneratingContent,
    isAddingSlide,          \* App: the add-slide dialog is open
    newSlideLayout,         \* App: useState<SlideLayout>('content')
    exportProgress,         \* App: useState(0)
    mounted,                \* the React root still shows the App
    gen,                    \* the call of handleGenerate in progress
    img,                    \* ... of handleToggleImage or handleEditImage
    upl,                    \* ... the FileReader of handleImageUpload
    ref,                    \* ... of handleRegenerateContent
    exp,                    \* ... of handleExportPDF or handleExportImage
    genCount,               \* calls of handleGenerate so far
    opCount                 \* other operations of the user so far

segVars  == <<text, segments>>
sizeVars == <<content, baseSize, minSize, fontSize>>
rendVars == <<slide, imgLoaded, view>>
editVars == <<editTitle, editSubtitle, editContentText, isModified>>
\* what the App section leaves alone: the state of one SlideRenderer
slideVars == <<pc, text, segments, isThumbnail, sizeVars, rendVars>>
flagVars == <<isLoading, isExporting, isEditingImage, isRegeneratingContent>>
callVars == <<gen, img, upl, ref, exp>>
appVars == <<presentation, currentSlideIndex, isAddingSlide, newSlideLayout,
             exportProgress, mounted, genCount, opCount, flagVars, callVars>>
vars == <<pc, text, segments, content, baseSize, minSize, fontSize, slide,
          isThumbnail, imgLoaded, view, editTitle, editSubtitle,
          editContentText, isModified, presentation, currentSlideIndex,
          isLoading, isExporting, isEditingImage, isRegeneratingContent,
          isAddingSlide, newSlideLayout, exportProgress, mounted, gen, img,
          upl, ref, exp, genCount, opCount>>

NoSlide == [title |-> <<>>, subtitle |-> Undefined, content |-> <<>>,
            layout |-> "content", imageUrl |-> Undefined]
NoView == [template |-> "none"]

SegIdle  == text = <<>> /\ segments = <<>>
SizeIdle == content = <<>> /\ baseSize = 1 /\ minSize = 1 /\ fontSize = <<>>
RendIdle == slide = NoSlide /\ imgLoaded = FALSE /\ view = NoView
EditIdle == /\ editTitle = <<>> /\ editSubtitle = <<>>
            /\ editContentText = <<>> /\ isModified = FALSE

\* presentation = null
NoPresentation == [open |-> FALSE, id |-> 0, slides |-> <<>>]
\* no call of handleGenerate in progress; otherwise pc tells the await it
\* stands at, slides is slidesWithImages, i the loop index and requested the
\* indices generateSlideImage was called for
NoGen == [pc |-> "idle", slides |-> <<>>, i |-> 0, requested |-> <<>>]
\* the closure of handleToggleImage / handleEditImage, and of reader.onload
\* in handleImageUpload: the presentation and the index of the render the
\* handler belongs to
NoClosure == [pc |-> "idle", presentation |-> NoPresentation, index |-> 0]
\* the closure of handleRegenerateContent: the slide asked about and the
\* edit state of that render
NoRef == [pc |-> "idle", slideId |-> 0, editTitle |-> <<>>,
          editSubtitle |-> <<>>, editContentText |-> <<>>]
\* the call of handleExportPDF / handleExportImage: the slides of the
\* presentation of its closure, the loop index i, the slide html2canvas is
\* drawing, the pages of the pdf (the id of the slide each one shows, 0 for
\* a blank page) and whether pdf.save was called
NoExp == [pc |-> "idle", slides |-> <<>>, i |-> 0, shown |-> 0,
          pages |-> <<>>, saved |-> FALSE]

AppIdle ==
    /\ presentation = NoPresentation /\ currentSlideIndex = 0
    /\ isLoading = FALSE /\ isExporting = FALSE /\ isEditingImage = FALSE
    /\ isRegeneratingContent = FALSE /\ isAddingSlide = FALSE
    /\ newSlideLayout = "content" /\ exportProgress = 0 /\ mounted = TRUE
    /\ gen = NoGen /\ img = NoClosure /\ upl = NoClosure /\ ref = NoRef
    /\ exp = NoExp /\ genCount = 0 /\ opCount = 0

(***************************************************************************)
(* SmartText on its own                                                    *)
(***************************************************************************)
InitSeg ==
    /\ pc = "props"
    /\ text \in Texts
    /\ segments = <<>>
    /\ isThumbnail = FALSE
    /\ SizeIdle /\ RendIdle /\ EditIdle /\ AppIdle

RenderText ==
    /\ pc = "props"
    /\ segments' = SmartText(text)
    /\ pc' = "rendered"
    /\ UNCHANGED <<text, isThumbnail, sizeVars, rendVars, editVars, appVars>>

NextSeg == RenderText
SpecSeg == InitSeg /\ [][NextSeg]_vars

(***************************************************************************)
(* getDynamicFontSize on its own                                           *)
(***************************************************************************)
InitSize ==
    /\ pc = "props"
    /\ \E n \in 0..MaxLines : content = [i \in 1..n |-> <<>>]
    /\ \E c \in SizeCalls :
          baseSize = c[1] /\ minSize = c[2] /\ isThumbnail = c[3]
    /\ fontSize = <<>>
    /\ SegIdle /\ RendIdle /\ EditIdle /\ AppIdle

Estimate ==
    /\ pc = "props"
    /\ fontSize' = getDynamicFontSize(content, baseSize, minSize, isThumbnail)
    /\ pc' = "rendered"
    /\ UNCHANGED <<content, baseSize, minSize, isThumbnail, segVars, rendVars, editVars, appVars>>

\* the first line gets one more character and the block is rendered again
GrowContent ==
    /\ pc = "rendered"
    /\ content # <<>>
    /\ Len(content[1]) < MaxChars
    /\ content' = [content EXCEPT ![1] = Append(@, "a")]
    /\ fontSize' = getDynamicFontSize(content', baseSize, minSize, isThumbnail)
    /\ UNCHANGED <<pc, baseSize, minSize, isThumbnail, segVars, rendVars, editVars, appVars>>

NextSize == Estimate \/ GrowContent
SpecSize == InitSize /\ [][NextSize]_vars

(***************************************************************************)
(* SlideRenderer                                                           *)
(***************************************************************************)
Init ==
    /\ pc = "props"
    /\ slide \in InitSlides
    /\ isThumbnail \in BOOLEAN
    /\ imgLoaded = FALSE
    /\ view = NoView
    /\ SegIdle /\ SizeIdle /\ EditIdle /\ AppIdle

\* the first render
Render ==
    /\ pc = "props"
    /\ view' = renderLayout(slide, isThumbnail, imgLoaded)
    /\ pc' = "rendered"
    /\ UNCHANGED <<slide, isThumbnail, imgLoaded, segVars, sizeVars, editVars, appVars>>

\* the parent passes the slide with one more bullet; the component renders
\* again
AppendBullet ==
    /\ pc = "rendered"
    /\ Len(slide.content) < MaxBullets
    /\ \E b \in BulletPool :
          slide' = [slide EXCEPT !.content = Append(@, b)]
    /\ view' = renderLayout(slide', isThumbnail, imgLoaded)
    /\ UNCHANGED <<pc, isThumbnail, imgLoaded, segVars, sizeVars, editVars, appVars>>

\* <img onLoad>: setImgLoaded(true), which renders again
ImgOnLoad ==
    /\ pc = "rendered"
    /\ slide.layout \in ImageTags
    /\ ~Falsy(slide.imageUrl)
    /\ ~imgLoaded
    /\ imgLoaded' = TRUE
    /\ view' = renderLayout(slide, isThumbnail, TRUE)
    /\ UNCHANGED <<pc, slide, isThumbnail, segVars, sizeVars, editVars, appVars>>

Next == Render \/ AppendBullet \/ ImgOnLoad
Spec == Init /\ [][Next]_vars

(***************************************************************************)
(* The slide editor of App on the current slide                            *)
(***************************************************************************)
\* the characters typed into the bullet editor
EditAlphabet == {"a", "b", " ", "\n"}
EditSubtitles == {<<>>, <<"s">>}

\* the current slide when the editor opens
EditSlides ==
    {[title |-> <<"T">>, subtitle |-> Undefined, content |-> c,
      layout |-> l, imageUrl |-> Undefined] :
        c \in {<<>>, <<<<"a">>, <<"b">>>>}, l \in {"title", "content"}}

\* the edit state after the effect that follows a change of the presentation
Synced ==
    /\ editTitle = slide.title
    /\ editSubtitle = OrEmpty(slide.subtitle)
    /\ editContentText = joinWith(slide.content, "\n")
    /\ isModified = FALSE

InitEdit ==
    /\ pc = "editing"
    /\ slide \in EditSlides
    /\ Synced
    /\ isThumbnail = FALSE /\ imgLoaded = FALSE /\ view = NoView
    /\ SegIdle /\ SizeIdle /\ AppIdle

\* onChange of the title input
ChangeTitle ==
    /\ pc = "editing"
    /\ \E v \in Titles : editTitle' = v
    /\ isModified' = TRUE
    /\ UNCHANGED <<pc, editSubtitle, editContentText, isThumbnail, segVars,
                   sizeVars, rendVars, appVars>>

\* onChange of the subtitle input, shown for the title layout or a subtitle
ChangeSubtitle ==
    /\ pc = "editing"
    /\ slide.layout = "title" \/ ~Falsy(editSubtitle)
    /\ \E v \in EditSubtitles : editSubtitle' = v
    /\ isModified' = TRUE
    /\ UNCHANGED <<pc, editTitle, editContentText, isThumbnail, segVars,
                   sizeVars, rendVars, appVars>>

\* onChange of the bullet textarea: one more character typed at the end
ChangeContentText ==
    /\ pc = "editing"
    /\ Len(editContentText) < MaxEditLen
    /\ \E c \in EditAlphabet : editContentText' = Append(editContentText, c)
    /\ isModified' = TRUE
    /\ UNCHANGED <<pc, editTitle, editSubtitle, isThumbnail, segVars,
                   sizeVars, rendVars, appVars>>

\* the Save Changes button, shown while isModified
handleSaveSlideContent ==
    /\ pc = "editing"
    /\ isModified
    /\ slide' = [slide EXCEPT
                    !.title = editTitle,
                    !.subtitle = OrUndefined(editSubtitle),
                    !.content = filterNonBlank(splitOn(editContentText, "\n"))]
    /\ isModified' = FALSE
    /\ pc' = "saved"
    /\ UNCHANGED <<editTitle, editSubtitle, editContentText, isThumbnail,
                   imgLoaded, view, segVars, sizeVars, appVars>>

\* useEffect on [currentSlideIndex, presentation]: the edit state follows
\* the saved slide
SyncEditState ==
    /\ pc = "saved"
    /\ editTitle' = slide.title
    /\ editSubtitle' = OrEmpty(slide.subtitle)
    /\ editContentText' = joinWith(slide.content, "\n")
    /\ isModified' = FALSE
    /\ pc' = "editing"
    /\ UNCHANGED <<isThumbnail, segVars, sizeVars, rendVars, appVars>>

NextEdit ==
    \/ ChangeTitle
    \/ ChangeSubtitle
    \/ ChangeContentText
    \/ handleSaveSlideContent
    \/ SyncEditState
SpecEdit == InitEdit /\ [][NextEdit]_vars

(***************************************************************************)
(* Properties of the segmenter (SpecSeg)                                   *)
(***************************************************************************)
RECURSIVE Count(_, _)
Count(t, c) == IF t = <<>> THEN 0
               ELSE (IF Head(t) = c THEN 1 ELSE 0) + Count(Tail(t), c)

IsMath(seg) == seg.type \in {"inline", "block"}

\* a segment written back with the delimiter of its type
Rewrap(seg) ==
    CASE seg.type = "inline" -> <<Dollar>> \o seg.text \o <<Dollar>>
      [] seg.type = "block"  -> <<Dollar, Dollar>> \o seg.text
                                \o <<Dollar, Dollar>>
      [] OTHER -> seg.text

RECURSIVE Reassemble(_)
Reassemble(segs) == IF segs = <<>> THEN <<>>
                    ELSE Rewrap(Head(segs)) \o Reassemble(Tail(segs))

\* the number of leading characters of t that are not "$"
RECURSIVE PlainRun(_)
PlainRun(t) == IF t = <<>> \/ Head(t) = Dollar THEN 0
               ELSE 1 + PlainRun(Tail(t))

Drop(t, n) == SubSeq(t, n + 1, Len(t))

\* The reading of a text as plain runs, $payload$ and $$payload$$ spans whose
\* payloads hold no "$": <<>> stands for "no such reading".  A reading is a
\* sequence of segments, so the empty text is read as the sequence holding
\* one empty plain segment, which Tokens removes.
RECURSIVE Reading(_)
Reading(t) ==
    IF t = <<>> THEN <<Plain(<<>>)>>
    ELSE IF Head(t) # Dollar
    THEN LET n == PlainRun(t)
             rest == Reading(Drop(t, n))
         IN  IF rest = <<>> THEN <<>> ELSE <<Plain(SubSeq(t, 1, n))>> \o rest
    ELSE IF Len(t) >= 2 /\ t[2] = Dollar
    THEN LET n == PlainRun(Drop(t, 2))
             closed == Len(t) >= n + 4 /\ t[n + 3] = Dollar /\ t[n + 4] = Dollar
             rest == IF closed THEN Reading(Drop(t, n + 4)) ELSE <<>>
         IN  IF rest = <<>> THEN <<>>
             ELSE <<BlockMath(SubSeq(t, 3, n + 2))>> \o rest
    ELSE LET n == PlainRun(Drop(t, 1))
             closed == Len(t) >= n + 2 /\ t[n + 2] = Dollar
             rest == IF closed THEN Reading(Drop(t, n + 2)) ELSE <<>>
         IN  IF rest = <<>> THEN <<>>
             ELSE <<InlineMath(SubSeq(t, 2, n + 1))>> \o rest

NonEmpty(segs) == SelectSeq(segs, LAMBDA g : IsMath(g) \/ g.text # <<>>)

\* the delimiters of t are balanced: t reads as plain text and spans, every
\* "$$" opening a block span
Balanced(t) == Reading(t) # <<>>
Tokens(t) == NonEmpty(Reading(t))

\* C1: segmenting the string "$" yields exactly one plain segment with the
\* text "$"; a text with a single, hence unmatched, "$" yields no math
\* segment.
C1_UnmatchedDollarIsPlain ==
    (pc = "rendered" /\ Count(text, Dollar) = 1) =>
        /\ \A i \in 1..Len(segments) : ~IsMath(segments[i])
        /\ text = <<Dollar>> => segments = <<Plain(<<Dollar>>)>>

\* C3: for every text with balanced delimiters, the segments written back in
\* order, each math payload in the delimiter of its type, give the text.
C3_RoundTrip ==
    (pc = "rendered" /\ Balanced(text)) => Reassemble(segments) = text

\* C10: "a $x$ b $$y$$ c" yields plain "a ", inline "x", plain " b ", block
\* "y", plain " c"; and in general a text that reads as plain text and math
\* spans yields its plain runs, unchanged and in order, interleaved with its
\* spans.
C10_Interleaved ==
    pc = "rendered" =>
        /\ text = MixedExample =>
             segments = <<Plain(<<"a", " ">>), InlineMath(<<"x">>),
                          Plain(<<" ", "b", " ">>), BlockMath(<<"y">>),
                          Plain(<<" ", "c">>)>>
        /\ Balanced(text) => NonEmpty(segments) = Tokens(text)

\* t begins with "$$" and ends with "$$"
BeginsAndEndsBlock(t) ==
    /\ Len(t) >= 2
    /\ t[1] = Dollar /\ t[2] = Dollar
    /\ t[Len(t) - 1] = Dollar /\ t[Len(t)] = Dollar

\* t without its first two and its last two characters
Inner(t) == IF Len(t) <= 4 THEN <<>> ELSE [i \in 1..(Len(t) - 4) |-> t[i + 2]]

\* C11: a text that begins and ends with "$$" yields exactly one block-math
\* segment, whose payload is the text without its first two and last two
\* characters; "$$x^2$$" yields block math "x^2".
C11_WholeBlock ==
    (pc = "rendered" /\ BeginsAndEndsBlock(text)) =>
        segments = <<BlockMath(Inner(text))>>

C11_Witness ==
    /\ pc = "rendered"
    /\ text = BlockExample
    /\ segments = <<BlockMath(<<"x", "^", "2">>)>>

\* C12: the empty text yields the empty sequence: nothing is rendered.
C12_EmptyIsNothing ==
    (pc = "rendered" /\ text = <<>>) => Len(segments) = 0

C12_Witness ==
    /\ pc = "rendered"
    /\ text = <<>>
    /\ segments = <<>>

\* C20: for a text the whole-string fast path does not handle, no plain
\* segment of the sequence is the empty string.
C20_NoEmptyPlain ==
    (pc = "rendered" /\ ~BeginsAndEndsBlock(text)) =>
        \A i \in 1..Len(segments) :
            segments[i].type = "plain" => segments[i].text # <<>>

(***************************************************************************)
(* Properties of the estimator (SpecSize)                                  *)
(***************************************************************************)
RECURSIVE Chars(_)
Chars(c) == IF c = <<>> THEN 0 ELSE Len(Head(c)) + Chars(Tail(c))

\* characters + 40 per line, counted line by line
Weight(c) == Chars(c) + 40 * Len(c)

Max(a, b) == IF a >= b THEN a ELSE b

\* floor(baseSize * max(minSize/baseSize, 1 - ((w - 300) / 900) * 0.6)) over
\* the rationals: both arguments of max are put over the denominator 9000
RealFormula(w, b, m) ==
    Max(m * 9000, b * (9000 - 6 * (w - 300))) \div 9000

\* floor(0.4 * b) over the rationals
FloorTwoFifths(b) == (4 * b) \div 10

\* x is the double nearest to num / 10: 10 * x is within 2^-40 of num
NearTenths(x, num) ==
    LET a == BMulSmall(x, 10)
        b == FromInt(num)
        d == IF BCmp(a, b) = -1 THEN BSub(b, a) ELSE BSub(a, b)
    IN  BCmp(d, ShiftLeft(<<1>>, LimbBits * FracLimbs - 40)) = -1

FullSized == pc = "rendered" /\ ~isThumbnail
ThumbSized == pc = "rendered" /\ isThumbnail

\* C4: in full mode, with baseSize, minSize and the number of lines fixed,
\* the size never grows when the number of characters grows, and it is never
\* below minSize.
C4_MonotoneAboveMin ==
    [][/\ (pc' = "rendered" /\ ~isThumbnail') =>
              ~FLess(fontSize', FromInt(minSize'))
       /\ (FullSized /\ pc' = "rendered" /\ Len(content') = Len(content)
              /\ Chars(content') >= Chars(content)) =>
              ~FLess(fontSize, fontSize')]_vars

C4_Witness ==
    /\ FullSized
    /\ Weight(content) > 300
    /\ minSize < baseSize
    /\ fontSize = FromInt(minSize)

C7_EasyUnscaled ==
    (FullSized /\ Weight(content) <= 300) => fontSize = FromInt(baseSize)

C7_Witness ==
    /\ FullSized
    /\ Weight(content) = 300
    /\ fontSize = FromInt(baseSize)

\* C8: in full mode, above 300, the size is
\* floor(baseSize * max(minSize/baseSize, 1 - ((complexity - 300) / 900) * 0.6)).
C8_ScaledFormula ==
    (FullSized /\ Weight(content) > 300) =>
        fontSize = FromInt(RealFormula(Weight(content), baseSize, minSize))

SizedBlocks(v) ==
    CASE v.template = "title" ->
             {v.title} \cup (IF v.hasSubtitle THEN {v.subtitle} ELSE {})
      [] v.template = "split" -> {v.left, v.right}
      [] v.template \in {"quote", "image", "content"} -> {v.body}
      [] OTHER -> {}

\* content[0]
FirstEntry(c) == IF c = <<>> THEN Undefined ELSE c[1]

\* C2: for the quote layout the quoted text and its size depend only on
\* content[0]: a render after a change of content[1..] alone gives the same
\* quote and the same size.
C2_QuoteReadsFirstOnly ==
    [][(/\ pc = "rendered" /\ pc' = "rendered"
        /\ slide.layout = "quote"
        /\ slide' = [slide EXCEPT !.content = slide'.content]
        /\ FirstEntry(slide'.content) = FirstEntry(slide.content)) =>
           /\ view'.bodyText = view.bodyText
           /\ view'.body.fontSize = view.body.fontSize]_vars

\* C6: every size computed for a text block, in full and in thumbnail mode,
\* is positive and not below the minSize passed for that block.
C6_SizeAboveMin ==
    pc = "rendered" =>
        \A blk \in SizedBlocks(view) :
            /\ FLess(<<>>, blk.fontSize)
            /\ ~FLess(blk.fontSize, FromInt(blk.minSize))

\* C13: for the split layout with n bullets the left column shows the first
\* ceil(n/2) bullets and the right column the others: left followed by right
\* is the content in order, and the left column has as many items as the
\* right or one more; 5 bullets give 3 and 2.
C13_SplitHalves ==
    (pc = "rendered" /\ slide.layout = "split") =>
        /\ view.leftItems \o view.rightItems =
               [i \in 1..Len(slide.content) |-> SmartText(slide.content[i])]
        /\ Len(view.leftItems) - Len(view.rightItems) \in {0, 1}
        /\ Len(slide.content) = 5 =>
               Len(view.leftItems) = 3 /\ Len(view.rightItems) = 2

C13_Witness ==
    /\ pc = "rendered" /\ slide.layout = "split"
    /\ Len(slide.content) = 5
    /\ slide.content[3] # slide.content[4]
    /\ Len(view.leftItems) = 3 /\ Len(view.rightItems) = 2

\* C14: for the split layout both columns have one and the same font size,
\* the size of the combined content list and not of a half.
C14_SplitSharedSize ==
    (pc = "rendered" /\ slide.layout = "split") =>
        /\ view.left.fontSize = view.right.fontSize
        /\ view.left.fontSize =
               getDynamicFontSize(slide.content, view.left.baseSize,
                                  view.left.minSize, isThumbnail)

\* the combined list is sized below what the left half alone would get
C14_Witness ==
    /\ pc = "rendered" /\ slide.layout = "split" /\ ~isThumbnail
    /\ view.left.fontSize = view.right.fontSize
    /\ Weight(slide.content) > 300
    /\ Weight(SubSeq(slide.content, 1, Len(view.leftItems))) <= 300
    /\ FLess(view.left.fontSize, FromInt(view.left.baseSize))

\* the six tags of SlideLayout
KnownTags == {"title", "content", "split", "quote", "image-left",
              "image-right"}

\* C15: a layout tag outside the six known tags gives the arrangement and the
\* sizes the tag "content" gives for the same slide.
C15_UnknownIsContent ==
    (pc = "rendered" /\ slide.layout \notin KnownTags) =>
        /\ view.template = "content"
        /\ view = renderLayout([slide EXCEPT !.layout = "content"],
                               isThumbnail, imgLoaded)

C15_Witness ==
    /\ pc = "rendered" /\ slide.layout = UnknownTag
    /\ slide.content # <<>>
    /\ view.template = "content"
    /\ view.body.baseSize \in {26, 11}

\* the sequences of elements the SmartText instances of a view rendered
TextFields(v) ==
    CASE v.template = "title" -> {v.titleText, v.subtitleText}
      [] v.template = "quote" -> {v.titleText, v.bodyText}
      [] v.template \in {"image", "content"} ->
             {v.titleText} \cup {v.items[i] : i \in 1..Len(v.items)}
      [] v.template = "split" ->
             {v.titleText} \cup {v.leftItems[i] : i \in 1..Len(v.leftItems)}
                          \cup {v.rightItems[i] : i \in 1..Len(v.rightItems)}
      [] OTHER -> {}

\* x is a number: a sequence of limbs
IsNumber(x) == \A i \in 1..Len(x) : x[i] \in 0..(LimbBase - 1)

\* C16: every render completes with a result, for every layout tag, the
\* unknown one included: a template is chosen, every SmartText yields a
\* sequence of segments and every estimate a number; with an empty title, no
\* subtitle and no content (quote without content[0] included) nothing is
\* shown as text and no error arises.
C16_RenderTotal ==
    pc = "rendered" =>
        /\ view.template \in {"title", "quote", "image", "split", "content"}
        /\ \A t \in TextFields(view) : \A i \in 1..Len(t) :
               t[i].type \in {"plain", "inline", "block"}
        /\ \A blk \in SizedBlocks(view) : IsNumber(blk.fontSize)
        /\ (slide.title = <<>> /\ Falsy(slide.subtitle) /\ slide.content = <<>>)
               => \A t \in TextFields(view) : t = <<>>

C16_Witness ==
    /\ pc = "rendered" /\ slide.layout = "quote"
    /\ slide.title = <<>> /\ slide.content = <<>>
    /\ view.template = "quote" /\ view.bodyText = <<>>
    /\ IsNumber(view.body.fontSize)

\* C17: a render leaves the slide as it is; of a renderer's state only the
\* image-loaded flag changes between renders of the same slide, and the
\* template and every computed size are the same before and after it
\* changes.
C17_RenderIsPure ==
    [][/\ (pc = "props" \/ imgLoaded' # imgLoaded) => slide' = slide
       /\ isThumbnail' = isThumbnail
       /\ (pc = "rendered" /\ imgLoaded' # imgLoaded) =>
              /\ view'.template = view.template
              /\ SizedBlocks(view') = SizedBlocks(view)
       /\ (pc = "rendered" /\ slide' = slide /\ imgLoaded' = imgLoaded) =>
              view' = view]_vars

C17_Witness ==
    /\ pc = "rendered" /\ slide.layout \in ImageTags
    /\ imgLoaded
    /\ slide.content # <<>>
    /\ view.image = "img opacity-100"

\* C19: the (baseSize, minSize) pair given to the estimator, full /
\* thumbnail: title (64,32)/(24,12), subtitle (28,16)/(12,8), quote
\* (40,20)/(14,10), image-left and image-right (20,12)/(10,8), split
\* (18,12)/(9,7), content (26,14)/(11,9).
PairOf(blk) == <<blk.baseSize, blk.minSize>>
Configured(thumbPair, fullPair) == IF isThumbnail THEN thumbPair ELSE fullPair

C19_ConfiguredPairs ==
    pc = "rendered" =>
        /\ slide.layout = "title" =>
               /\ PairOf(view.title) = Configured(<<24, 12>>, <<64, 32>>)
               /\ ~Falsy(slide.subtitle) =>
                      PairOf(view.subtitle) = Configured(<<12, 8>>, <<28, 16>>)
        /\ slide.layout = "quote" =>
               PairOf(view.body) = Configured(<<14, 10>>, <<40, 20>>)
        /\ slide.layout \in {"image-left", "image-right"} =>
               PairOf(view.body) = Configured(<<10, 8>>, <<20, 12>>)
        /\ slide.layout = "split" =>
               /\ PairOf(view.left) = Configured(<<9, 7>>, <<18, 12>>)
               /\ PairOf(view.right) = Configured(<<9, 7>>, <<18, 12>>)
        /\ slide.layout = "content" =>
               PairOf(view.body) = Configured(<<11, 9>>, <<26, 14>>)
        /\ \A blk \in SizedBlocks(view) :
               blk.fontSize = getDynamicFontSize(
                   IF slide.layout = "title"
                   THEN (IF blk = view.title THEN <<slide.title>>
                         ELSE <<slide.subtitle>>)
                   ELSE slide.content,
                   blk.baseSize, blk.minSize, isThumbnail)

C19_Witness ==
    /\ pc = "rendered" /\ slide.layout = "title" /\ isThumbnail
    /\ ~Falsy(slide.subtitle)
    /\ PairOf(view.title) = <<24, 12>>
    /\ PairOf(view.subtitle) = <<12, 8>>

(***************************************************************************)
(* Properties of the slide editor (SpecEdit)                               *)
(***************************************************************************)
\* the positions of t that end a line: each line break, and the end
LineEnds(t) == {i \in 1..Len(t) : t[i] = "\n"} \cup {Len(t) + 1}

\* the line of t that ends at position e
LineEndingAt(t, e) ==
    LET before == {i \in LineEnds(t) : i < e}
        start == IF before = {} THEN 1
                 ELSE 1 + CHOOSE i \in before : \A j \in before : j <= i
    IN  SubSeq(t, start, e - 1)

IsBlank(line) == \A i \in 1..Len(line) : line[i] \in {" ", "\t", "\n", "\r"}

\* c is the sequence of the non-blank lines of t, in their order
IsNonBlankLinesOf(c, t) ==
    LET ends == {e \in LineEnds(t) : ~IsBlank(LineEndingAt(t, e))}
    IN  /\ Len(c) = Cardinality(ends)
        /\ \A e \in ends :
               c[Cardinality({d \in ends : d <= e})] = LineEndingAt(t, e)

\* C18: when the edits have been saved, the content of the saved slide has
\* no empty and no whitespace-only bullet and is the sequence of the
\* non-blank lines of the edit text, in their order; it may be empty.
C18_SavedContentNormalised ==
    pc = "saved" =>
        /\ \A i \in 1..Len(slide.content) : ~IsBlank(slide.content[i])
        /\ IsNonBlankLinesOf(slide.content, editContentText)

C18_Witness ==
    /\ pc = "saved"
    /\ \E e \in LineEnds(editContentText) :
           IsBlank(LineEndingAt(editContentText, e))
    /\ Len(slide.content) = 2
    /\ slide.content[1] # slide.content[2]

(***************************************************************************)
(* Further properties of the segmenter (SpecSeg)                           *)
(***************************************************************************)
\* C21: the whole-string fast path is decided on the trimmed text: a text
\* that begins and ends with "$$" once its leading and trailing whitespace is
\* removed (" $$x$$ ") yields a single block-math segment.
C21_FastPathOnTrimmed ==
    (pc = "rendered" /\ BeginsAndEndsBlock(trim(text))) =>
        /\ Len(segments) = 1
        /\ segments[1] = BlockMath(Inner(trim(text)))

\* a part the regex matched by its first alternative, \$\$.*?\$\$: the second
\* alternative, matching up to the first "$", gives "$$" when it starts with
\* "$$"
MatchedAsBlock(part) ==
    Len(part) >= 4 /\ part[1] = Dollar /\ part[2] = Dollar

\* C22: every matched span is classified by its delimiter width and loses
\* exactly its delimiters: a span matched as $...$, the empty span "$$" of
\* "a $$ b" included, is inline math, a span matched as $$...$$ block math.
C22_ClassifiedByWidth ==
    (pc = "rendered" /\ text # <<>> /\ ~BeginsAndEndsBlock(text)) =>
        \A i \in 1..Len(split(text)) :
            i % 2 = 0 =>
                segments[i] =
                    IF MatchedAsBlock(split(text)[i])
                    THEN BlockMath(SubSeq(split(text)[i], 3,
                                          Len(split(text)[i]) - 2))
                    ELSE InlineMath(SubSeq(split(text)[i], 2,
                                           Len(split(text)[i]) - 1))

(***************************************************************************)
(* App: presentation, navigation and the asynchronous handlers             *)
(***************************************************************************)
MaxOps == 3   \* operations of the user in a behaviour: clicks on Generate,
              \* and changes of a presentation

\* one more operation of the user
Spend == opCount < MaxOps /\ opCount' = opCount + 1

\* a slide of the AI response: no imageUrl, imagePrompt possibly empty
AiSlide(id, layout, imagePrompt) ==
    [id |-> id, title |-> <<"T">>, subtitle |-> Undefined,
     content |-> <<<<"a">>>>, layout |-> layout, imageUrl |-> Undefined,
     imagePrompt |-> imagePrompt]

\* data.slides || [] of the AI responses considered
GenResponses ==
    {<<>>,
     <<AiSlide(1, "image-left", <<"p">>), AiSlide(2, "image-right", <<"p">>)>>,
     <<AiSlide(1, "content", <<"p">>), AiSlide(2, "image-left", <<>>)>>}

\* the values generateSlideImage resolves with for a request made by
\* handler h for the slide id: a data URL, or null
ImageResults(h, id) == {<<h, id>>, Undefined}

\* presentation.slides[i] is a slide, not undefined
HasSlide(p, i) == i >= 0 /\ i < Len(p.slides)

\* presentation.slides[i], where it is a slide
SlideAt(p, i) == p.slides[i + 1]

\* a commit of presentation p and index i, one of which is new: the render,
\* where <SlideRenderer slide={presentation.slides[currentSlideIndex]} />
\* throws for an undefined slide, which unmounts the App, and after it the
\* effect that copies the current slide into the edit state
Commit(p, i) ==
    /\ presentation' = p
    /\ currentSlideIndex' = i
    /\ mounted' = (p.open => HasSlide(p, i))
    /\ IF p.open /\ HasSlide(p, i)
       THEN /\ editTitle' = SlideAt(p, i).title
            /\ editSubtitle' = OrEmpty(SlideAt(p, i).subtitle)
            /\ editContentText' = joinWith(SlideAt(p, i).content, "\n")
            /\ isModified' = FALSE
       ELSE UNCHANGED editVars

\* the user can reach the controls of the page: the App is mounted and
\* neither the export overlay nor the add-slide dialog (both fixed inset-0)
\* covers them
CanClick == mounted /\ ~isExporting /\ ~isAddingSlide

\* mutant: an image is requested for every slide with an image layout
NextImageIndexAnyPrompt(slides, i) ==
    LET wanted == {j \in i..(Len(slides) - 1) :
                     slides[j + 1].layout \in ImageTags}
    IN  IF wanted = {} THEN Len(slides)
        ELSE CHOOSE j \in wanted : \A k \in wanted : j <= k

\* the first index from i on whose slide gets an image requested, Len(slides)
\* when there is none
NextImageIndex(slides, i) ==
    LET wanted == {j \in i..(Len(slides) - 1) :
                     /\ slides[j + 1].layout \in ImageTags
                     /\ ~Falsy(slides[j + 1].imagePrompt)}
    IN  IF wanted = {} THEN Len(slides)
        ELSE CHOOSE j \in wanted : \A k \in wanted : j <= k

\* mutant: no finally block after the loop
GenerateLoopNoFinally(slides, i, requested) ==
    /\ gen' = IF NextImageIndex(slides, i) < Len(slides)
              THEN [pc |-> "awaitImage", slides |-> slides,
                    i |-> NextImageIndex(slides, i),
                    requested |-> Append(requested,
                                         NextImageIndex(slides, i))]
              ELSE NoGen
    /\ UNCHANGED isLoading

\* handleGenerate: the loop of the image requests from index i on, up to
\* the next await or through the finally block
GenerateLoopFrom(slides, i, requested) ==
    IF NextImageIndex(slides, i) < Len(slides)
    THEN /\ gen' = [pc |-> "awaitImage", slides |-> slides,
                    i |-> NextImageIndex(slides, i),
                    requested |-> Append(requested,
                                         NextImageIndex(slides, i))]
         /\ UNCHANGED isLoading
    ELSE /\ gen' = NoGen
         /\ isLoading' = FALSE

\* handleGenerate up to the await of generatePresentation
handleGenerate ==
    /\ CanClick /\ ~presentation.open /\ ~isLoading
    /\ Spend
    /\ genCount' = genCount + 1
    /\ isLoading' = TRUE
    /\ gen' = [NoGen EXCEPT !.pc = "awaitPresentation"]
    /\ UNCHANGED <<slideVars, presentation, currentSlideIndex, mounted, isAddingSlide,
                   newSlideLayout, exportProgress, isExporting, isEditingImage,
                   isRegeneratingContent, img, upl, ref, exp, editVars>>

\* generatePresentation rejects: catch, finally
GenerateFailed ==
    /\ mounted /\ gen.pc = "awaitPresentation"
    /\ gen' = NoGen
    /\ isLoading' = FALSE
    /\ UNCHANGED <<slideVars, presentation, currentSlideIndex, mounted, isAddingSlide,
                   newSlideLayout, exportProgress, genCount, opCount, isExporting,
                   isEditingImage, isRegeneratingContent, img, upl, ref, exp,
                   editVars>>

\* generatePresentation resolves: setPresentation(newPres),
\* setCurrentSlideIndex(0), then the image loop
GeneratePresentationResolved ==
    /\ mounted /\ gen.pc = "awaitPresentation"
    /\ \E slides \in GenResponses :
          /\ Commit([open |-> TRUE, id |-> genCount, slides |-> slides], 0)
          /\ GenerateLoopFrom(slides, 0, <<>>)
    /\ UNCHANGED <<slideVars, isAddingSlide, newSlideLayout, exportProgress,
                   genCount, opCount, isExporting, isEditingImage,
                   isRegeneratingContent, img, upl, ref, exp>>

\* generateSlideImage resolves, with a URL or with null; with a URL,
\* setPresentation(prev => prev ? {...prev, slides: [...slidesWithImages]}
\* : null); then the loop goes on
GenerateImageResolved ==
    /\ mounted /\ gen.pc = "awaitImage"
    /\ \E imageUrl \in ImageResults("gen", gen.slides[gen.i + 1].id) :
          LET slidesWithImages ==
                  IF Falsy(imageUrl) THEN gen.slides
                  ELSE [gen.slides EXCEPT ![gen.i + 1].imageUrl = imageUrl]
          IN  /\ IF ~Falsy(imageUrl) /\ presentation.open
                 THEN Commit([presentation EXCEPT !.slides = slidesWithImages],
                             currentSlideIndex)
                 ELSE UNCHANGED <<presentation, currentSlideIndex, mounted,
                                  editVars>>
              /\ GenerateLoopFrom(slidesWithImages, gen.i + 1, gen.requested)
    /\ UNCHANGED <<slideVars, isAddingSlide, newSlideLayout, exportProgress, genCount, opCount,
                   isExporting, isEditingImage, isRegeneratingContent, img,
                   upl, ref, exp>>

\* nextSlide, prevSlide and the click on a thumbnail
nextSlide ==
    /\ CanClick /\ presentation.open
    /\ currentSlideIndex < Len(presentation.slides) - 1
    /\ Commit(presentation, currentSlideIndex + 1)
    /\ UNCHANGED <<slideVars, isAddingSlide, newSlideLayout, exportProgress, genCount, opCount,
                   flagVars, callVars>>

prevSlide ==
    /\ CanClick /\ presentation.open
    /\ currentSlideIndex > 0
    /\ Commit(presentation, currentSlideIndex - 1)
    /\ UNCHANGED <<slideVars, isAddingSlide, newSlideLayout, exportProgress, genCount, opCount,
                   flagVars, callVars>>

SelectThumbnail ==
    /\ CanClick /\ presentation.open
    /\ \E idx \in 0..(Len(presentation.slides) - 1) :
          /\ idx # currentSlideIndex
          /\ Commit(presentation, idx)
    /\ UNCHANGED <<slideVars, isAddingSlide, newSlideLayout, exportProgress, genCount, opCount,
                   flagVars, callVars>>

\* New Project: setPresentation(null)
NewProject ==
    /\ CanClick /\ presentation.open
    /\ Spend
    /\ Commit(NoPresentation, currentSlideIndex)
    /\ UNCHANGED <<slideVars, isAddingSlide, newSlideLayout, exportProgress, genCount,
                   flagVars, callVars>>

\* the add-slide dialog: open, close, choose a layout, submit
OpenAddSlide ==
    /\ CanClick /\ presentation.open
    /\ isAddingSlide' = TRUE
    /\ UNCHANGED <<slideVars, presentation, currentSlideIndex, newSlideLayout,
                   exportProgress, mounted, genCount, opCount, flagVars, callVars,
                   editVars>>

CloseAddSlide ==
    /\ mounted /\ isAddingSlide
    /\ isAddingSlide' = FALSE
    /\ UNCHANGED <<slideVars, presentation, currentSlideIndex, newSlideLayout,
                   exportProgress, mounted, genCount, opCount, flagVars, callVars,
                   editVars>>

SelectNewSlideLayout ==
    /\ mounted /\ isAddingSlide
    /\ \E layout \in {"content", "image-left"} :
          layout # newSlideLayout /\ newSlideLayout' = layout
    /\ UNCHANGED <<slideVars, presentation, currentSlideIndex, isAddingSlide,
                   exportProgress, mounted, genCount, opCount, flagVars, callVars,
                   editVars>>

\* the slide handleAddSlide makes: crypto.randomUUID() is an id no slide of
\* the presentation has
NewSlide(slides, layout) ==
    [id |-> 1 + Len(slides), title |-> <<"N">>, subtitle |-> Undefined,
     content |-> <<<<"S">>>>, layout |-> layout, imageUrl |-> Undefined,
     imagePrompt |-> Undefined]

\* mutant: the new slide goes to the end
spliceAtEnd(slides, at, newSlide) == Append(slides, newSlide)

\* updatedSlides.splice(at, 0, newSlide)
spliceIn(slides, at, newSlide) ==
    SubSeq(slides, 1, at) \o <<newSlide>> \o SubSeq(slides, at + 1, Len(slides))

handleAddSlide ==
    /\ mounted /\ isAddingSlide /\ presentation.open
    /\ Spend
    /\ Commit([presentation EXCEPT
                  !.slides = spliceIn(@, currentSlideIndex + 1,
                                      NewSlide(@, newSlideLayout))],
              currentSlideIndex + 1)
    /\ isAddingSlide' = FALSE
    /\ UNCHANGED <<slideVars, newSlideLayout, exportProgress, genCount, flagVars,
                   callVars>>

\* currentSlide of the render; isImageSlide is !!currentSlide?.imageUrl
currentSlide == SlideAt(presentation, currentSlideIndex)

\* {...presentation, slides: updatedSlides} with updatedSlides[index] = slot
withSlide(p, index, slot) == [p EXCEPT !.slides[index + 1] = slot]

\* handleToggleImage, the slide with the generated image; the prompt is
\* currentSlide.imagePrompt || `A professional visual representation ...`
imageGenerated(s, newImageUrl) ==
    [s EXCEPT !.imageUrl = newImageUrl,
              !.imagePrompt = IF Falsy(@) THEN <<"v">> ELSE @,
              !.layout = "image-right"]

\* mutant: the upload keeps the layout of the slide
uploadLayoutKept(layout) == layout

\* handleImageUpload, the layout of the slide with the uploaded image
uploadLayout(layout) == IF layout \in ImageTags THEN layout ELSE "image-right"

\* handleToggleImage on a slide with an image: the image is removed
RemoveImage ==
    /\ CanClick /\ presentation.open /\ ~isEditingImage /\ ~Falsy(currentSlide.imageUrl)
    /\ Spend
    /\ Commit(withSlide(presentation, currentSlideIndex,
                        [currentSlide EXCEPT !.imageUrl = Undefined,
                                             !.imagePrompt = Undefined,
                                             !.layout = "content"]),
              currentSlideIndex)
    /\ UNCHANGED <<slideVars, isAddingSlide, newSlideLayout, exportProgress,
                   genCount, flagVars, callVars>>

\* handleToggleImage on a slide without image, up to the await
handleToggleImage ==
    /\ CanClick /\ presentation.open /\ ~isEditingImage /\ Falsy(currentSlide.imageUrl)
    /\ Spend
    /\ isEditingImage' = TRUE
    /\ img' = [pc |-> "awaitGenerate", presentation |-> presentation,
               index |-> currentSlideIndex]
    /\ UNCHANGED <<slideVars, presentation, currentSlideIndex, mounted,
                   isAddingSlide, newSlideLayout, exportProgress, genCount,
                   isLoading, isExporting, isRegeneratingContent, gen, upl,
                   ref, exp, editVars>>

\* handleEditImage up to the await
handleEditImage ==
    /\ CanClick /\ presentation.open /\ ~isEditingImage /\ ~Falsy(currentSlide.imageUrl)
    /\ Spend
    /\ isEditingImage' = TRUE
    /\ img' = [pc |-> "awaitEdit", presentation |-> presentation,
               index |-> currentSlideIndex]
    /\ UNCHANGED <<slideVars, presentation, currentSlideIndex, mounted,
                   isAddingSlide, newSlideLayout, exportProgress, genCount,
                   isLoading, isExporting, isRegeneratingContent, gen, upl,
                   ref, exp, editVars>>

\* generateSlideImage / editSlideImage resolves, with a URL or with null:
\* with a URL, setPresentation({...presentation, slides: updatedSlides}) of
\* the handler's closure; finally setIsEditingImage(false)
ImageResolved ==
    /\ mounted /\ img.pc # "idle"
    /\ \E newImageUrl \in
              ImageResults(img.pc, SlideAt(img.presentation, img.index).id) :
          IF Falsy(newImageUrl)
          THEN UNCHANGED <<presentation, currentSlideIndex, mounted, editVars>>
          ELSE Commit(withSlide(img.presentation, img.index,
                          IF img.pc = "awaitGenerate"
                          THEN imageGenerated(
                                   SlideAt(img.presentation, img.index),
                                   newImageUrl)
                          ELSE [SlideAt(img.presentation, img.index) EXCEPT
                                   !.imageUrl = newImageUrl]),
                      currentSlideIndex)
    /\ isEditingImage' = FALSE
    /\ img' = NoClosure
    /\ UNCHANGED <<slideVars, isAddingSlide, newSlideLayout, exportProgress,
                   genCount, opCount, isLoading, isExporting, isRegeneratingContent,
                   gen, upl, ref, exp>>

\* handleImageUpload: reader.readAsDataURL(file); one reader at a time
handleImageUpload ==
    /\ CanClick /\ presentation.open /\ upl.pc = "idle"
    /\ Spend
    /\ upl' = [pc |-> "reading", presentation |-> presentation,
               index |-> currentSlideIndex]
    /\ UNCHANGED <<slideVars, presentation, currentSlideIndex, mounted,
                   isAddingSlide, newSlideLayout, exportProgress, genCount,
                   flagVars, gen, img, ref, exp, editVars>>

\* reader.onload
ReaderOnLoad ==
    /\ mounted /\ upl.pc = "reading"
    /\ Commit(withSlide(upl.presentation, upl.index,
                        [SlideAt(upl.presentation, upl.index) EXCEPT
                            !.imageUrl = <<"upload">>,
                            !.layout = uploadLayout(@)]),
              currentSlideIndex)
    /\ upl' = NoClosure
    /\ UNCHANGED <<slideVars, isAddingSlide, newSlideLayout, exportProgress,
                   genCount, opCount, flagVars, gen, img, ref, exp>>

\* the layout buttons of an image slide: setPresentation(p => p ? {...p,
\* slides: p.slides.map(...)} : null)
SelectLayout ==
    /\ CanClick /\ presentation.open /\ ~Falsy(currentSlide.imageUrl)
    /\ Spend
    /\ \E l \in {"image-left", "image-right"} :
          Commit(withSlide(presentation, currentSlideIndex,
                           [currentSlide EXCEPT !.layout = l]),
                 currentSlideIndex)
    /\ UNCHANGED <<slideVars, isAddingSlide, newSlideLayout, exportProgress,
                   genCount, flagVars, callVars>>

\* onChange of the content textarea: the user types "u"
ChangeContent ==
    /\ CanClick /\ presentation.open
    /\ Spend
    /\ editContentText # <<"u">>
    /\ editContentText' = <<"u">>
    /\ isModified' = TRUE
    /\ UNCHANGED <<slideVars, presentation, currentSlideIndex, isAddingSlide,
                   newSlideLayout, exportProgress, mounted, genCount,
                   flagVars, callVars, editTitle, editSubtitle>>

\* handleSaveSlideContent of the App: the Save button is shown when
\* isModified
SaveSlide ==
    /\ CanClick /\ presentation.open /\ isModified
    /\ Spend
    /\ Commit(withSlide(presentation, currentSlideIndex,
                        [currentSlide EXCEPT
                            !.title = editTitle,
                            !.subtitle = OrUndefined(editSubtitle),
                            !.content = filterNonBlank(
                                            splitOn(editContentText, "\n"))]),
              currentSlideIndex)
    /\ UNCHANGED <<slideVars, isAddingSlide, newSlideLayout, exportProgress,
                   genCount, flagVars, callVars>>

\* what regenerateSlideContent resolves with for the slide id: a title and
\* a content line that names the slide, or the empty object of
\* JSON.parse('{}'), written with no title and no content line (its
\* result.content?.join('\n') is falsy as that of an empty list is)
RefineResults(id) ==
    {[title |-> <<"R">>,
      content |-> <<<<"r", <<"1", "2", "3", "4", "5", "6", "7">>[id]>>>>],
     [title |-> Undefined, content |-> <<>>]}

\* handleRegenerateContent up to the await
handleRegenerateContent ==
    /\ CanClick /\ presentation.open /\ ~isRegeneratingContent
    /\ Spend
    /\ isRegeneratingContent' = TRUE
    /\ ref' = [pc |-> "await", slideId |-> currentSlide.id,
               editTitle |-> editTitle, editSubtitle |-> editSubtitle,
               editContentText |-> editContentText]
    /\ UNCHANGED <<slideVars, presentation, currentSlideIndex, mounted,
                   isAddingSlide, newSlideLayout, exportProgress, genCount,
                   isLoading, isExporting, isEditingImage, gen, img, upl, exp,
                   editVars>>

\* regenerateSlideContent resolves: the result goes to the edit state
RegenerateResolved ==
    /\ mounted /\ ref.pc = "await"
    /\ \E result \in RefineResults(ref.slideId) :
          /\ editTitle' = IF Falsy(result.title) THEN ref.editTitle
                          ELSE result.title
          /\ editSubtitle' = ref.editSubtitle
          /\ editContentText' = IF Falsy(joinWith(result.content, "\n"))
                                THEN ref.editContentText
                                ELSE joinWith(result.content, "\n")
    /\ isModified' = TRUE
    /\ isRegeneratingContent' = FALSE
    /\ ref' = NoRef
    /\ UNCHANGED <<slideVars, presentation, currentSlideIndex, mounted,
                   isAddingSlide, newSlideLayout, exportProgress, genCount, opCount,
                   isLoading, isExporting, isEditingImage, gen, img, upl, exp>>

\* regenerateSlideContent rejects: catch, finally
RegenerateFailed ==
    /\ mounted /\ ref.pc = "await"
    /\ isRegeneratingContent' = FALSE
    /\ ref' = NoRef
    /\ UNCHANGED <<slideVars, presentation, currentSlideIndex, mounted,
                   isAddingSlide, newSlideLayout, exportProgress, genCount, opCount,
                   isLoading, isExporting, isEditingImage, gen, img, upl, exp,
                   editVars>>

\* Math.round((i / totalSlides) * 100)
RoundPercent(i, totalSlides) == (200 * i + totalSlides) \div (2 * totalSlides)

\* setCurrentSlideIndex(i): nothing happens when i is the index already
SetIndex(i) ==
    IF i = currentSlideIndex
    THEN UNCHANGED <<presentation, currentSlideIndex, mounted, editVars>>
    ELSE Commit(presentation, i)

\* handleExportPDF: the loop from index i on, with the pdf so far, up to the
\* next await or through pdf.save and the finally block; the state of an
\* unmounted App is not set any more
ExportLoopFrom(slides, i, pages) ==
    IF i < Len(slides)
    THEN /\ exp' = [pc |-> "timer", slides |-> slides, i |-> i, shown |-> 0,
                    pages |-> pages, saved |-> FALSE]
         /\ IF mounted
            THEN SetIndex(i) /\ exportProgress' = RoundPercent(i, Len(slides))
            ELSE UNCHANGED <<presentation, currentSlideIndex, mounted,
                             editVars, exportProgress>>
         /\ UNCHANGED isExporting
    ELSE /\ exp' = [NoExp EXCEPT !.slides = slides, !.pages = pages,
                                 !.saved = TRUE]
         /\ IF mounted
            THEN exportProgress' = 100 /\ isExporting' = FALSE
            ELSE UNCHANGED <<exportProgress, isExporting>>
         /\ UNCHANGED <<presentation, currentSlideIndex, mounted, editVars>>

\* handleExportPDF up to the first await; new jsPDF has one blank page
handleExportPDF ==
    /\ CanClick /\ presentation.open
    /\ Spend
    /\ isExporting' = TRUE
    /\ exp' = [pc |-> "timer", slides |-> presentation.slides, i |-> 0,
               shown |-> 0, pages |-> <<0>>, saved |-> FALSE]
    /\ SetIndex(0)
    /\ exportProgress' = RoundPercent(0, Len(presentation.slides))
    /\ UNCHANGED <<slideVars, isAddingSlide, newSlideLayout, genCount,
                   isLoading, isEditingImage, isRegeneratingContent, gen, img,
                   upl, ref>>

\* document.querySelector('.main-slide-container') finds the main slide
slideElement ==
    mounted /\ presentation.open /\ HasSlide(presentation, currentSlideIndex)

\* the 800 ms are over: html2canvas starts on the slide shown, or the slide
\* is skipped
ExportTimer ==
    /\ exp.pc = "timer"
    /\ IF slideElement
       THEN /\ exp' = [exp EXCEPT !.pc = "canvas", !.shown = currentSlide.id]
            /\ UNCHANGED <<presentation, currentSlideIndex, mounted, editVars,
                           exportProgress, isExporting>>
       ELSE ExportLoopFrom(exp.slides, exp.i + 1, exp.pages)
    /\ UNCHANGED <<slideVars, isAddingSlide, newSlideLayout, genCount,
                   opCount, isLoading, isEditingImage, isRegeneratingContent,
                   gen, img, upl, ref>>

\* if (i > 0) pdf.addPage(); pdf.addImage(...): the image goes onto the
\* last page
addImage(pages, i, shown) ==
    IF i > 0 THEN Append(pages, shown)
    ELSE [pages EXCEPT ![Len(pages)] = shown]

\* html2canvas resolves
ExportCanvasResolved ==
    /\ exp.pc = "canvas"
    /\ ExportLoopFrom(exp.slides, exp.i + 1,
                      addImage(exp.pages, exp.i, exp.shown))
    /\ UNCHANGED <<slideVars, isAddingSlide, newSlideLayout, genCount,
                   opCount, isLoading, isEditingImage, isRegeneratingContent,
                   gen, img, upl, ref>>

\* html2canvas rejects: catch, finally
ExportCanvasRejected ==
    /\ exp.pc = "canvas"
    /\ exp' = NoExp
    /\ IF mounted THEN isExporting' = FALSE ELSE UNCHANGED isExporting
    /\ UNCHANGED <<slideVars, presentation, currentSlideIndex, mounted,
                   isAddingSlide, newSlideLayout, exportProgress, genCount,
                   opCount, isLoading, isEditingImage, isRegeneratingContent,
                   gen, img, upl, ref, editVars>>

\* handleExportImage up to the await
handleExportImage ==
    /\ CanClick /\ presentation.open /\ slideElement
    /\ Spend
    /\ isExporting' = TRUE
    /\ exportProgress' = 50
    /\ exp' = [NoExp EXCEPT !.pc = "image"]
    /\ UNCHANGED <<slideVars, presentation, currentSlideIndex, mounted,
                   isAddingSlide, newSlideLayout, genCount, isLoading,
                   isEditingImage, isRegeneratingContent, gen, img, upl, ref,
                   editVars>>

\* html2canvas resolves or rejects: finally
ExportImageSettled ==
    /\ mounted /\ exp.pc = "image"
    /\ isExporting' = FALSE
    /\ exportProgress' = 100
    /\ exp' = NoExp
    /\ UNCHANGED <<slideVars, presentation, currentSlideIndex, mounted,
                   isAddingSlide, newSlideLayout, genCount, opCount, isLoading,
                   isEditingImage, isRegeneratingContent, gen, img, upl, ref,
                   editVars>>

InitApp ==
    /\ pc = "app"
    /\ AppIdle /\ EditIdle
    /\ isThumbnail = FALSE
    /\ SegIdle /\ SizeIdle /\ RendIdle

NextApp ==
    \/ handleGenerate \/ GenerateFailed \/ GeneratePresentationResolved
    \/ GenerateImageResolved
    \/ nextSlide \/ prevSlide \/ SelectThumbnail \/ NewProject
    \/ OpenAddSlide \/ CloseAddSlide \/ SelectNewSlideLayout
    \/ handleAddSlide
    \/ RemoveImage \/ handleToggleImage \/ handleEditImage \/ ImageResolved
    \/ handleImageUpload \/ ReaderOnLoad \/ SelectLayout
    \/ ChangeContent \/ SaveSlide
    \/ handleRegenerateContent \/ RegenerateResolved \/ RegenerateFailed
    \/ handleExportPDF \/ ExportTimer \/ ExportCanvasResolved
    \/ ExportCanvasRejected \/ handleExportImage \/ ExportImageSettled

SpecApp == InitApp /\ [][NextApp]_vars

\* the handlers that raise a busy flag, with their continuations, and the
\* navigation between the slides
NextBusy ==
    \/ handleGenerate \/ GenerateFailed \/ GeneratePresentationResolved
    \/ GenerateImageResolved
    \/ nextSlide \/ prevSlide
    \/ handleToggleImage \/ handleEditImage \/ ImageResolved
    \/ handleRegenerateContent \/ RegenerateResolved \/ RegenerateFailed
    \/ handleExportPDF \/ ExportTimer \/ ExportCanvasResolved
    \/ ExportCanvasRejected \/ handleExportImage \/ ExportImageSettled

\* the event loop runs every callback that is ready: a pending promise
\* settles, one way or the other, and a timer fires
Settles ==
    /\ WF_vars(GenerateFailed \/ GeneratePresentationResolved)
    /\ WF_vars(GenerateImageResolved)
    /\ WF_vars(ImageResolved)
    /\ WF_vars(RegenerateResolved \/ RegenerateFailed)
    /\ WF_vars(ExportTimer)
    /\ WF_vars(ExportCanvasResolved \/ ExportCanvasRejected)
    /\ WF_vars(ExportImageSettled)

SpecBusy == InitApp /\ [][NextBusy]_vars /\ Settles

(***************************************************************************)
(* Properties of the App                                                   *)
(***************************************************************************)

\* C23: whenever a presentation is displayed, currentSlideIndex is a valid
\* index into presentation.slides, under any interleaving of generation,
\* navigation, add-slide, image operations, export and New Project.
C23_IndexValid ==
    presentation.open =>
        /\ 0 <= currentSlideIndex
        /\ currentSlideIndex < Len(presentation.slides)

\* a step in which an image result lands: of the image loop of
\* handleGenerate, of handleToggleImage / handleEditImage, or of the reader
\* of handleImageUpload
ImageLands ==
    /\ \/ gen.pc = "awaitImage" /\ gen' # gen
       \/ img.pc # "idle" /\ img'.pc = "idle"
       \/ upl.pc = "reading" /\ upl'.pc = "idle"
    /\ presentation' # presentation

\* a slide without its image fields
NoImageFields(s) ==
    [id |-> s.id, title |-> s.title, subtitle |-> s.subtitle,
     content |-> s.content]

\* C24: when an asynchronous image result lands, the only change to the
\* presentation is to the image fields (imageUrl, imagePrompt, layout) of
\* one slide: what was committed while the request was in flight is still
\* there.
C24_LandingKeepsEdits ==
    [][ImageLands =>
          /\ presentation.open /\ presentation'.open
          /\ presentation'.id = presentation.id
          /\ Len(presentation'.slides) = Len(presentation.slides)
          /\ \A k \in 1..Len(presentation.slides) :
                NoImageFields(presentation'.slides[k])
                    = NoImageFields(presentation.slides[k])
          /\ Cardinality({k \in 1..Len(presentation.slides) :
                presentation'.slides[k] # presentation.slides[k]}) <= 1]_vars

\* the content text the refine request for the slide id comes back with
RefinedText(id) ==
    joinWith((CHOOSE r \in RefineResults(id) : Len(r.content) > 0).content,
             "\n")

\* C25: content returned by handleRegenerateContent is only ever placed in
\* the edit buffer of, and saved to, the slide that was current when the
\* request was submitted.
C25_RefineStaysOnSlide ==
    (mounted /\ presentation.open) =>
        /\ \A id \in 1..7 :
              editContentText = RefinedText(id) => currentSlide.id = id
        /\ \A k \in 1..Len(presentation.slides) : \A id \in 1..7 :
              presentation.slides[k].content = <<RefinedText(id)>>
                  => presentation.slides[k].id = id

\* C26: in every presentation state a slide that has an imageUrl has layout
\* image-left or image-right.
C26_ImageHasImageLayout ==
    presentation.open =>
        \A k \in 1..Len(presentation.slides) :
            ~Falsy(presentation.slides[k].imageUrl)
                => presentation.slides[k].layout \in ImageTags

\* an image was uploaded to a slide the AI gave the layout content
C26_Witness ==
    /\ presentation.open
    /\ \E k \in 1..Len(presentation.slides) :
          /\ presentation.slides[k].imageUrl = <<"upload">>
          /\ presentation.slides[k].layout = "image-right"
          /\ \E slides \in GenResponses : \E j \in 1..Len(slides) :
                /\ slides[j].id = presentation.slides[k].id
                /\ slides[j].title = presentation.slides[k].title
                /\ slides[j].layout = "content"

\* C28: a successful PDF export of a presentation with n >= 1 slides captures
\* each slide once, in presentation order, and saves a PDF with exactly n
\* pages in that order.
C28_ExportedPages ==
    (exp.saved /\ Len(exp.slides) >= 1) =>
        exp.pages = [k \in 1..Len(exp.slides) |-> exp.slides[k].id]

\* C29: handleAddSlide inserts exactly one new slide immediately after the
\* current slide and makes it the current slide; the slides that existed
\* keep their content and relative order; the new slide has the chosen
\* layout, a non-empty content list and no image.
C29_AddSlideInsertsOne ==
    [][(isAddingSlide /\ ~isAddingSlide' /\ presentation' # presentation) =>
          LET old == presentation.slides
              new == presentation'.slides
              at == currentSlideIndex + 1
          IN  /\ Len(new) = Len(old) + 1
              /\ currentSlideIndex' = at
              /\ \A k \in 1..at : new[k] = old[k]
              /\ \A k \in (at + 1)..Len(old) : new[k + 1] = old[k]
              /\ new[at + 1].layout = newSlideLayout
              /\ new[at + 1].content # <<>>
              /\ Falsy(new[at + 1].imageUrl)]_vars

\* a slide was added between two slides and is the current one
C29_Witness ==
    /\ presentation.open /\ mounted
    /\ Len(presentation.slides) = 3
    /\ currentSlideIndex = 1
    /\ currentSlide.id = 3
    /\ presentation.slides[1].id = 1
    /\ presentation.slides[3].id = 2

\* the indices of the slides with an image layout and an imagePrompt, up to
\* index i, in slide order
Wanted(slides, i) ==
    LET RECURSIVE upTo(_)
        upTo(j) ==
            IF j < 0 THEN <<>>
            ELSE IF slides[j + 1].layout \in ImageTags
                    /\ slides[j + 1].imagePrompt # Undefined
                    /\ slides[j + 1].imagePrompt # <<>>
                 THEN Append(upTo(j - 1), j)
                 ELSE upTo(j - 1)
    IN  upTo(i)

\* C30: during handleGenerate images are requested one at a time, in slide
\* order, for exactly the slides with an image layout and an imagePrompt;
\* an empty image result leaves its slide without imageUrl, raises no error
\* and does not prevent the requests for the following slides.
C30_ImageRequests ==
    [][/\ (gen' # gen /\ gen'.pc = "awaitImage") =>
             /\ gen'.requested = Wanted(gen'.slides, gen'.i)
             /\ gen'.requested # <<>>
             /\ isLoading'
       /\ (gen' # gen /\ gen.pc = "awaitImage") =>
             /\ presentation' = presentation =>
                    \/ gen'.pc = "idle"
                    \/ ~presentation.open
                    \/ Falsy(gen'.slides[gen.i + 1].imageUrl)
             /\ IF Wanted(gen.slides, Len(gen.slides) - 1) = gen.requested
                THEN gen'.pc = "idle" /\ ~isLoading'
                ELSE gen'.pc = "awaitImage" /\ gen'.i > gen.i]_vars

\* the image of the first slide came back empty and the image of the second
\* slide is requested
C30_Witness ==
    /\ gen.pc = "awaitImage"
    /\ gen.requested = <<0, 1>>
    /\ Falsy(gen.slides[1].imageUrl)
    /\ presentation.open /\ Falsy(presentation.slides[1].imageUrl)

====
